---- MODULE Spec2Model ----
(***************************************************************************)
(* Model of client/serviceclient.go: the ServiceClient of the skynet RPC   *)
(* client.  It covers the registry actor (mux), the timeout rendezvous     *)
(* (SetTimeout / GetTimeout), the dispatch engine (Send / SendOnce / send) *)
(* and the attempts it launches (attemptSend / sendToInstance).            *)
(*                                                                         *)
(* The package pools (pools.ResourcePool) and Client.getServicePool are    *)
(* not part of serviceclient.go; they are modelled from the written        *)
(* specification (sections 4.1 and 4.2) and marked so in the model map.    *)
(***************************************************************************)
EXTENDS Integers, Sequences, FiniteSets, TLC

(***************************************************************************)
(* Bounds of the model.                                                    *)
(***************************************************************************)
\* Instance entries getServicePool may hand out over a run.
MaxEntries == 1
\* Attempts one call may launch (the first one plus retry ticks).
MaxAttempts == 2

\* Service addresses (the keys of ServiceClient.instances).
Addrs == {"a1", "a2"}
\* Concurrent callers of Send / SendOnce / send.
Calls == {"c1"}
\* time.Duration values for retry and giveup (0: disabled).
Durations == {0, 1}
\* Result bytes of a remote call: decodable into out, or not.
Bytes == {"good", "bad"}
\* The input value of a call: bson.Marshal accepts it, or not.
Inputs == {"marshals", "unmarshalable"}

Entries == 1..MaxEntries
AttemptIds == 1..MaxAttempts

(***************************************************************************)
(* Errors.  An error value carries its kind and the attempt that produced  *)
(* it (by = 0 for errors no attempt produces), so that two transport       *)
(* errors of two attempts are different values.                            *)
(***************************************************************************)
Err(kind, by) == [kind |-> kind, by |-> by]
NilErr == Err("nil", 0)
ErrRequestTimeout == Err("ErrRequestTimeout", 0)
DecodeErr == Err("decode", 0)
NoBytes == "none"

\* err.(serviceError): the attempt's error is a remote application error.
IsServiceError(err) == err.kind = "serviceError"

\* An attempt error the engine treats as a transmission failure.
IsTransportError(err) == err # NilErr /\ ~IsServiceError(err)

\* bson.Unmarshal(attempt.result, out): nil when the bytes decode.
Unmarshal(bytes) == IF bytes = "good" THEN NilErr ELSE DecodeErr

(***************************************************************************)
(* pools.ResourcePool, from the specification: Release returns a resource  *)
(* to the idle set unless the resource (or nil) is closed; Acquire hands   *)
(* out an idle resource that is not closed and drops the closed ones it    *)
(* passes.                                                                 *)
(***************************************************************************)
PoolRelease(idle, res, isClosed) == IF isClosed THEN idle ELSE idle \cup {res}

PoolAcquirable(idle, closedSet) == idle \ closedSet

PoolAfterAcquire(idle, closedSet, res) == (idle \ closedSet) \ {res}

(***************************************************************************)
(* The same pool for connections.  A connection is closed only while an    *)
(* attempt holds it, and Release drops a closed one, so the idle           *)
(* connections of a pool are open and interchangeable: the pool is         *)
(* modelled by their number.                                               *)
(***************************************************************************)
ConnPoolRelease(idle, r) == IF r = "open" THEN idle + 1 ELSE idle

VARIABLES
    instances,      \* ServiceClient.instances: address -> instance entry
    closed,         \* instance entries with servicePool.closed = true
    nextEntry,      \* the next entry getServicePool creates
    poolIdle,       \* entries idle in ServiceClient.instancePool
    registered,     \* history: addresses registered by the notifications so far
    retryTimeout,   \* ServiceClient.retryTimeout
    giveupTimeout,  \* ServiceClient.giveupTimeout
    cfgPc,          \* the configuring caller: "idle", "SetTimeout", "GetTimeout"
    setArg,         \* the pair of its last SetTimeout call
    got,            \* the pair its last GetTimeout returned
    call,           \* per caller: the state of its Send / SendOnce / send
    att,            \* per caller and attempt: the state of attemptSend
    connIdle        \* per entry: the connections idle in servicePool.pool

registryVars == <<instances, closed, nextEntry, poolIdle, registered>>
timeoutVars == <<retryTimeout, giveupTimeout>>
cfgVars == <<cfgPc, setArg, got>>
callVars == <<call, att>>
connVars == <<connIdle>>
vars == <<registryVars, timeoutVars, cfgVars, callVars, connVars>>

(***************************************************************************)
(* The registry actor: discovery notifications.                            *)
(***************************************************************************)
NotificationTypes ==
    {"InstanceAddNotification", "InstanceUpdateNotification",
     "InstanceRemoveNotification"}

Notifications == [type : NotificationTypes, addr : Addrs, registered : BOOLEAN]

\* The registry part of the state, as one notification changes it.
Registry ==
    [instances |-> instances, closed |-> closed, nextEntry |-> nextEntry,
     poolIdle |-> poolIdle]

\* Client.getServicePool, from the specification: a new, open instance entry.
getServicePool(st) == st.nextEntry

addInstanceMux_AlwaysAdds(st, key) ==
    LET sp == getServicePool(st)
    IN  [st EXCEPT
            !.instances = [k \in DOMAIN st.instances \cup {key} |->
                              IF k = key THEN sp ELSE st.instances[k]],
            !.nextEntry = @ + 1,
            !.poolIdle = PoolRelease(@, sp, sp \in st.closed)]

addInstanceMux(st, key) ==
    IF key \in DOMAIN st.instances
    THEN st
    ELSE LET sp == getServicePool(st)
         IN  [st EXCEPT
                 !.instances = [k \in DOMAIN st.instances \cup {key} |->
                                   IF k = key THEN sp ELSE st.instances[k]],
                 !.nextEntry = @ + 1,
                 !.poolIdle = PoolRelease(@, sp, sp \in st.closed)]

removeInstanceMux_NoClose(st, key) ==
    IF key \notin DOMAIN st.instances
    THEN st
    ELSE [st EXCEPT
             !.instances = [k \in DOMAIN st.instances \ {key} |-> st.instances[k]]]

removeInstanceMux_UnknownClearsMap(st, key) ==
    IF key \notin DOMAIN st.instances
    THEN [st EXCEPT
             !.closed = @ \cup {st.instances[k] : k \in DOMAIN st.instances},
             !.instances = <<>>]
    ELSE [st EXCEPT
             !.closed = @ \cup {st.instances[key]},
             !.instances = [k \in DOMAIN st.instances \ {key} |-> st.instances[k]]]

removeInstanceMux(st, key) ==
    IF key \notin DOMAIN st.instances
    THEN st
    ELSE [st EXCEPT
             !.closed = @ \cup {st.instances[key]},
             !.instances = [k \in DOMAIN st.instances \ {key} |-> st.instances[k]]]

muxNotification_RemoveChecksRegistered(st, n) ==
    IF n.registered
    THEN addInstanceMux(st, n.addr)
    ELSE removeInstanceMux(st, n.addr)

\* One iteration of the loop over a batch: the switch on n.Type.
muxNotification(st, n) ==
    CASE n.type \in {"InstanceAddNotification", "InstanceUpdateNotification"} ->
             IF n.registered
             THEN addInstanceMux(st, n.addr)
             ELSE removeInstanceMux(st, n.addr)
      [] n.type = "InstanceRemoveNotification" ->
             removeInstanceMux(st, n.addr)

\* The addresses registered after notification n, by what n announces.
RegisteredAfter(reg, n) ==
    IF n.type # "InstanceRemoveNotification" /\ n.registered
    THEN reg \cup {n.addr}
    ELSE reg \ {n.addr}

\* mux, case ns := <-c.instanceListener.NotificationChan.  One step is one
\* iteration of the loop over ns, so a batch is any run of consecutive steps
\* and has any length: what an iteration releases into instancePool is
\* visible to the attempts before the next iteration.
MuxNotification(n) ==
    LET st == muxNotification(Registry, n)
    IN  /\ st.nextEntry <= MaxEntries + 1
        /\ instances' = st.instances
        /\ closed' = st.closed
        /\ nextEntry' = st.nextEntry
        /\ poolIdle' = st.poolIdle
        /\ registered' = RegisteredAfter(registered, n)
        /\ UNCHANGED <<timeoutVars, cfgVars, callVars, connVars>>

(***************************************************************************)
(* The timeout rendezvous.  mux offers the stored pair on timeoutChan; it  *)
(* has no case that receives from muxChan, the channel SetTimeout sends on.*)
(***************************************************************************)
\* The value mux offers: timeoutLengths{c.retryTimeout, c.giveupTimeout}.
timeoutLengths == [retry |-> retryTimeout, giveup |-> giveupTimeout]

\* SetTimeout: the caller blocks sending {retry, giveup} on muxChan.
SetTimeout(retry, giveup) ==
    /\ cfgPc = "idle"
    /\ cfgPc' = "SetTimeout"
    /\ setArg' = [retry |-> retry, giveup |-> giveup]
    /\ UNCHANGED <<got, registryVars, timeoutVars, callVars, connVars>>

\* GetTimeout: the caller blocks receiving from timeoutChan.
GetTimeout ==
    /\ cfgPc = "idle"
    /\ cfgPc' = "GetTimeout"
    /\ UNCHANGED <<setArg, got, registryVars, timeoutVars, callVars, connVars>>

\* mux, case c.timeoutChan <- timeoutLengths{...}, received by GetTimeout.
MuxOfferTimeout ==
    /\ cfgPc = "GetTimeout"
    /\ got' = timeoutLengths
    /\ cfgPc' = "idle"
    /\ UNCHANGED <<setArg, registryVars, timeoutVars, callVars, connVars>>

(***************************************************************************)
(* The dispatch engine.                                                    *)
(***************************************************************************)
NoResult == [err |-> NilErr, result |-> NoBytes]

\* A caller's state.  err is send's named result; received, last, decoded
\* and exit are history: the attempt results received, the last of them,
\* the bytes given to the decoder and the case that ended the call.
NoCall ==
    [pc |-> "idle", kind |-> "none", in |-> "marshals", retry |-> 0,
     giveup |-> 0, err |-> NilErr, launched |-> 0, received |-> 0,
     last |-> NoResult, decoded |-> NoBytes, decodedBy |-> 0,
     exit |-> "none"]

\* An attempt's state.  sp, r, err and result are attemptSend's locals: sp
\* is the entry (0: none), r is "nil", or the connection, "open" or "closed".
NoAttempt ==
    [pc |-> "none", sp |-> 0, r |-> "nil", err |-> NilErr, result |-> NoBytes]

\* go c.attemptSend(...): attempt i of caller c starts.
Launch(c, i) == [att EXCEPT ![c][i].pc = "acquireInstance"]

\* send, up to its loop: the ticker, the timer and the first attempt.
sendBegin(c, kind, in, retry, giveup) ==
    /\ call' = [call EXCEPT ![c] =
                   [NoCall EXCEPT !.pc = "select", !.kind = kind, !.in = in,
                                  !.retry = retry, !.giveup = giveup,
                                  !.launched = 1]]
    /\ att' = Launch(c, 1)

\* Send: retry, giveup := c.GetTimeout(), the caller blocks on timeoutChan.
Send(c, in) ==
    /\ call[c].pc = "idle"
    /\ call' = [call EXCEPT ![c].pc = "GetTimeout", ![c].kind = "Send",
                            ![c].in = in]
    /\ UNCHANGED <<att, registryVars, timeoutVars, cfgVars, connVars>>

\* SendOnce: _, giveup := c.GetTimeout(), the caller blocks on timeoutChan.
SendOnce(c, in) ==
    /\ call[c].pc = "idle"
    /\ call' = [call EXCEPT ![c].pc = "GetTimeout", ![c].kind = "SendOnce",
                            ![c].in = in]
    /\ UNCHANGED <<att, registryVars, timeoutVars, cfgVars, connVars>>

\* The retry interval Send passes to send.
SendRetry(tls) == tls.retry

\* The retry interval SendOnce passes to send.
SendOnceRetry(tls) == 0

\* mux offers the pair to a caller inside Send / SendOnce, which enters send.
MuxOfferTimeoutToCall(c) ==
    /\ call[c].pc = "GetTimeout"
    /\ sendBegin(c, call[c].kind, call[c].in,
                 IF call[c].kind = "Send" THEN SendRetry(timeoutLengths)
                 ELSE SendOnceRetry(timeoutLengths),
                 timeoutLengths.giveup)
    /\ UNCHANGED <<registryVars, timeoutVars, cfgVars, connVars>>

\* send(retry, giveup, ...) called with the given intervals.
send(c, retry, giveup, in) ==
    /\ call[c].pc = "idle"
    /\ sendBegin(c, "send", in, retry, giveup)
    /\ UNCHANGED <<registryVars, timeoutVars, cfgVars, connVars>>

HasTicker_Always(c) == TRUE

\* ticker is non-nil: if retry > 0 { ticker = time.NewTicker(retry).C }
HasTicker(c) == call[c].retry > 0

HasTimeout_IfRetry(c) == call[c].retry > 0

\* timeout is non-nil: if giveup > 0 { timeout = time.NewTimer(giveup).C }
HasTimeout(c) == call[c].giveup > 0

Tick_CancelsInFlight(c) ==
    /\ call[c].pc = "select"
    /\ HasTicker(c)
    /\ call[c].launched < MaxAttempts
    /\ call' = [call EXCEPT ![c].launched = @ + 1]
    /\ att' = [Launch(c, call[c].launched + 1) EXCEPT
                  ![c][call[c].launched] =
                      IF @.pc = "acquireInstance" THEN NoAttempt ELSE @]
    /\ UNCHANGED <<registryVars, timeoutVars, cfgVars, connVars>>

\* send, case <-ticker: one more attempt.
Tick(c) ==
    /\ call[c].pc = "select"
    /\ HasTicker(c)
    /\ call[c].launched < MaxAttempts
    /\ call' = [call EXCEPT ![c].launched = @ + 1]
    /\ att' = Launch(c, call[c].launched + 1)
    /\ UNCHANGED <<registryVars, timeoutVars, cfgVars, connVars>>

\* The error send returns when the timer fires.
TimeoutResult(err) == IF err = NilErr THEN ErrRequestTimeout ELSE err

\* send, case <-timeout.
Deadline(c) ==
    /\ call[c].pc = "select"
    /\ HasTimeout(c)
    /\ call' = [call EXCEPT ![c].pc = "done",
                            ![c].err = TimeoutResult(call[c].err),
                            ![c].exit = "timeout"]
    /\ UNCHANGED <<att, registryVars, timeoutVars, cfgVars, connVars>>

\* The history of a call that received attempt i's result a.
Received(cl, i, a) ==
    [cl EXCEPT !.received = @ + 1,
               !.last = [err |-> a.err, result |-> a.result]]

\* ... and gave its bytes to the decoder.
Decoded(cl, i, a) ==
    [Received(cl, i, a) EXCEPT !.decoded = a.result, !.decodedBy = i,
                               !.pc = "done", !.exit = "decode"]

AfterAttempt_NeverAborts(cl, i, a) ==
    IF IsTransportError(a.err)
    THEN [Received(cl, i, a) EXCEPT !.err = a.err]
    ELSE [Decoded(cl, i, a) EXCEPT !.err = Unmarshal(a.result)]

AfterAttempt_KeepsFirstError(cl, i, a) ==
    IF IsTransportError(a.err)
    THEN IF cl.giveup = 0
         THEN [Received(cl, i, a) EXCEPT !.err = a.err, !.pc = "done",
                                         !.exit = "abort"]
         ELSE [Received(cl, i, a) EXCEPT
                  !.err = IF cl.err = NilErr THEN a.err ELSE cl.err]
    ELSE [Decoded(cl, i, a) EXCEPT !.err = Unmarshal(a.result)]

AfterAttempt_ReturnsAttemptError(cl, i, a) ==
    IF IsTransportError(a.err)
    THEN IF cl.giveup = 0
         THEN [Received(cl, i, a) EXCEPT !.err = a.err, !.pc = "done",
                                         !.exit = "abort"]
         ELSE [Received(cl, i, a) EXCEPT !.err = a.err]
    ELSE [Decoded(cl, i, a) EXCEPT !.err = a.err]

AfterAttempt_AnyErrorIsTransport(cl, i, a) ==
    IF a.err # NilErr
    THEN IF cl.giveup = 0
         THEN [Received(cl, i, a) EXCEPT !.err = a.err, !.pc = "done",
                                         !.exit = "abort"]
         ELSE [Received(cl, i, a) EXCEPT !.err = a.err]
    ELSE [Decoded(cl, i, a) EXCEPT !.err = Unmarshal(a.result)]

\* send, case attempt := <-attempts: the call after attempt i's result a.
AfterAttempt(cl, i, a) ==
    IF IsTransportError(a.err)
    THEN IF cl.giveup = 0
         THEN [Received(cl, i, a) EXCEPT !.err = a.err, !.pc = "done",
                                         !.exit = "abort"]
         ELSE [Received(cl, i, a) EXCEPT !.err = a.err]
    ELSE [Decoded(cl, i, a) EXCEPT !.err = Unmarshal(a.result)]

\* The rendezvous on the attempts channel: attempt i sends, send receives;
\* the attempt then returns and runs its deferred releases.
Receive(c, i) ==
    /\ call[c].pc = "select"
    /\ att[c][i].pc = "send"
    /\ call' = [call EXCEPT ![c] = AfterAttempt(call[c], i, att[c][i])]
    /\ att' = [att EXCEPT ![c][i].pc = "releaseConn", ![c][i].err = NilErr,
                          ![c][i].result = NoBytes]
    /\ UNCHANGED <<registryVars, timeoutVars, cfgVars, connVars>>

(***************************************************************************)
(* One attempt: attemptSend and sendToInstance.                            *)
(***************************************************************************)
\* The attempt holds an instance entry leased from instancePool.
HoldsInstance(a) ==
    a.pc \in {"acquireConn", "rpc", "send", "releaseConn", "releaseInstance"}

\* The attempt holds a connection leased from its entry's pool.
HoldsConn(a) == a.pc \in {"rpc", "send", "releaseConn"} /\ a.r # "nil"

AcquireInstance_AnyIdle(c, i, e) ==
    /\ att[c][i].pc = "acquireInstance"
    /\ e \in poolIdle
    /\ poolIdle' = poolIdle \ {e}
    /\ att' = [att EXCEPT ![c][i].pc = "acquireConn", ![c][i].sp = e]
    /\ UNCHANGED <<instances, closed, nextEntry, registered,
                   timeoutVars, cfgVars, call, connVars>>

AcquireInstance_LeavesInPool(c, i, e) ==
    /\ att[c][i].pc = "acquireInstance"
    /\ e \in PoolAcquirable(poolIdle, closed)
    /\ att' = [att EXCEPT ![c][i].pc = "acquireConn", ![c][i].sp = e]
    /\ UNCHANGED <<registryVars, timeoutVars, cfgVars, call, connVars>>

\* spr, _ := c.instancePool.Acquire(); defer c.instancePool.Release(sp)
AcquireInstance(c, i, e) ==
    /\ att[c][i].pc = "acquireInstance"
    /\ e \in PoolAcquirable(poolIdle, closed)
    /\ poolIdle' = PoolAfterAcquire(poolIdle, closed, e)
    /\ att' = [att EXCEPT ![c][i].pc = "acquireConn", ![c][i].sp = e]
    /\ UNCHANGED <<instances, closed, nextEntry, registered,
                   timeoutVars, cfgVars, call, connVars>>

\* r, err := sp.pool.Acquire(); defer sp.pool.Release(r): an idle connection
\* of the entry's pool, or with none idle a connection the pool dials.
AcquireConn(c, i) ==
    LET sp == att[c][i].sp
    IN  /\ att[c][i].pc = "acquireConn"
        /\ connIdle' = [connIdle EXCEPT ![sp] = IF @ > 0 THEN @ - 1 ELSE @]
        /\ att' = [att EXCEPT ![c][i].pc = "rpc", ![c][i].r = "open"]
        /\ UNCHANGED <<registryVars, timeoutVars, cfgVars, call>>

\* r, err := sp.pool.Acquire() fails (none idle, the dial fails): r is nil,
\* the deferred Release(r) is registered, and the attempt blocks on
\* attempts <- sendAttempt{err: err}.
AcquireConnFails(c, i) ==
    LET sp == att[c][i].sp
    IN  /\ att[c][i].pc = "acquireConn"
        /\ connIdle[sp] = 0
        /\ att' = [att EXCEPT ![c][i].pc = "send", ![c][i].r = "nil",
                              ![c][i].err = Err("acquire", i)]
        /\ UNCHANGED <<registryVars, timeoutVars, cfgVars, call, connVars>>

\* What the wire call can do: fail, or answer with bytes and maybe a remote
\* application error.
RpcOutcomes == {<<"callError", NoBytes>>} \cup ({"ok", "remoteError"} \X Bytes)

\* sendToInstance: (result, err) and whether sr.Close() was called.
sendToInstance(in, i, outcome) ==
    IF in = "unmarshalable"
    THEN [result |-> NoBytes, err |-> Err("marshal", i), closes |-> FALSE]
    ELSE CASE outcome[1] = "callError" ->
                  [result |-> NoBytes, err |-> Err("transport", i),
                   closes |-> TRUE]
           [] outcome[1] = "remoteError" ->
                  [result |-> outcome[2], err |-> Err("serviceError", i),
                   closes |-> FALSE]
           [] outcome[1] = "ok" ->
                  [result |-> outcome[2], err |-> NilErr, closes |-> FALSE]

\* result, err := c.sendToInstance(sr, ri, fn, in); then the attempt blocks on
\* attempts <- sendAttempt{result, err}.
CallInstance(c, i, outcome) ==
    LET res == sendToInstance(call[c].in, i, outcome)
    IN  /\ att[c][i].pc = "rpc"
        /\ att' = [att EXCEPT ![c][i].pc = "send",
                              ![c][i].result = res.result,
                              ![c][i].err = res.err,
                              ![c][i].r = IF res.closes THEN "closed" ELSE @]
        /\ UNCHANGED <<registryVars, timeoutVars, cfgVars, call, connVars>>

ReleaseConn_KeepsConn(c, i) ==
    /\ att[c][i].pc = "releaseConn"
    /\ att' = [att EXCEPT ![c][i].pc = "releaseInstance"]
    /\ UNCHANGED <<registryVars, timeoutVars, cfgVars, call, connVars>>

\* The deferred sp.pool.Release(r), run when attemptSend returns.
ReleaseConn(c, i) ==
    LET sp == att[c][i].sp
        r == att[c][i].r
    IN  /\ att[c][i].pc = "releaseConn"
        /\ connIdle' = [connIdle EXCEPT ![sp] = ConnPoolRelease(@, r)]
        /\ att' = [att EXCEPT ![c][i].pc = "releaseInstance",
                              ![c][i].r = "nil"]
        /\ UNCHANGED <<registryVars, timeoutVars, cfgVars, call>>

\* The deferred c.instancePool.Release(sp), run last; attemptSend is over.
ReleaseInstance(c, i) ==
    LET sp == att[c][i].sp
    IN  /\ att[c][i].pc = "releaseInstance"
        /\ poolIdle' = PoolRelease(poolIdle, sp, sp \in closed)
        /\ att' = [att EXCEPT ![c][i] = [NoAttempt EXCEPT !.pc = "done"]]
        /\ UNCHANGED <<instances, closed, nextEntry, registered,
                       timeoutVars, cfgVars, call, connVars>>

(***************************************************************************)
(* The specifications.                                                     *)
(***************************************************************************)
\* newServiceClient: no instance, an empty instance pool, zero timeouts.
Init ==
    /\ instances = <<>>
    /\ closed = {}
    /\ nextEntry = 1
    /\ poolIdle = {}
    /\ registered = {}
    /\ retryTimeout = 0
    /\ giveupTimeout = 0
    /\ cfgPc = "idle"
    /\ setArg = [retry |-> 0, giveup |-> 0]
    /\ got = [retry |-> 0, giveup |-> 0]
    /\ call = [c \in Calls |-> NoCall]
    /\ att = [c \in Calls |-> [i \in AttemptIds |-> NoAttempt]]
    /\ connIdle = [e \in Entries |-> 0]

Discovery == \E n \in Notifications : MuxNotification(n)

Engine(c) ==
    \/ \E in \in Inputs : Send(c, in)
    \/ \E in \in Inputs : SendOnce(c, in)
    \/ \E in \in Inputs, retry, giveup \in Durations : send(c, retry, giveup, in)
    \/ MuxOfferTimeoutToCall(c)
    \/ Tick(c)
    \/ Deadline(c)
    \/ \E i \in AttemptIds : Receive(c, i)

Attempt(c, i) ==
    \/ \E e \in Entries : AcquireInstance(c, i, e)
    \/ AcquireConn(c, i)
    \/ AcquireConnFails(c, i)
    \/ \E outcome \in RpcOutcomes : CallInstance(c, i, outcome)
    \/ ReleaseConn(c, i)
    \/ ReleaseInstance(c, i)

Next ==
    \/ Discovery
    \/ \E c \in Calls : Engine(c)
    \/ \E c \in Calls, i \in AttemptIds : Attempt(c, i)

Spec == Init /\ [][Next]_vars

\* What the scheduler guarantees: an attempt that can take a step of its own
\* takes it (the remote call returns, the deferred releases run), a result
\* offered to a call still in its loop is received, the timer of a call
\* fires, and mux serves a caller waiting on timeoutChan.  Nothing is
\* assumed of discovery, of new calls, of retry ticks, or of an instance
\* becoming available.
AttemptStep(c, i) ==
    \/ AcquireConn(c, i)
    \/ AcquireConnFails(c, i)
    \/ \E outcome \in RpcOutcomes : CallInstance(c, i, outcome)
    \/ ReleaseConn(c, i)
    \/ ReleaseInstance(c, i)

Fairness ==
    /\ \A c \in Calls : WF_vars(MuxOfferTimeoutToCall(c))
    /\ \A c \in Calls : WF_vars(Deadline(c))
    /\ \A c \in Calls, i \in AttemptIds : WF_vars(Receive(c, i))
    /\ \A c \in Calls, i \in AttemptIds : WF_vars(AttemptStep(c, i))

FairSpec == Init /\ [][Next]_vars /\ Fairness

\* The same with a caller of SetTimeout and GetTimeout.
Configure ==
    \/ \E retry, giveup \in Durations : SetTimeout(retry, giveup)
    \/ GetTimeout
    \/ MuxOfferTimeout

NextTimeout == Next \/ Configure

TimeoutSpec ==
    Init /\ [][NextTimeout]_vars /\ Fairness /\ WF_vars(MuxOfferTimeout)

(***************************************************************************)
(* The instance pool reporting a failure.  The pool contract lets Acquire  *)
(* return an error when no resource can become available.  attemptSend     *)
(* drops that error (spr, _ := ...) and asserts the type of the nil        *)
(* resource, which panics; a panic in a goroutine ends the process.        *)
(***************************************************************************)
AcquireInstanceFails(c, i) ==
    /\ att[c][i].pc = "acquireInstance"
    /\ PoolAcquirable(poolIdle, closed) = {}
    /\ att' = [att EXCEPT ![c][i].pc = "panic"]
    /\ UNCHANGED <<registryVars, timeoutVars, cfgVars, call, connVars>>

\* The process has ended on a panic.
Crashed == \E c \in Calls, i \in AttemptIds : att[c][i].pc = "panic"

PoolFailure == \E c \in Calls, i \in AttemptIds : AcquireInstanceFails(c, i)

NextPoolFailure == ~Crashed /\ (Next \/ PoolFailure)

PoolFailureSpec == Init /\ [][NextPoolFailure]_vars

(***************************************************************************)
(* The claims.                                                             *)
(***************************************************************************)
Range(f) == {f[k] : k \in DOMAIN f}

\* The entries the attempts hold.
Leased ==
    {att[p[1]][p[2]].sp :
        p \in {q \in Calls \X AttemptIds : HoldsInstance(att[q[1]][q[2]])}}

\* C1: every attempt whose remote call (or connection acquisition) is over,
\* and which so holds a result to report, eventually has released its
\* connection and its instance entry -- also when the call it belongs to has
\* returned already.
C1_AttemptReleases ==
    \A c \in Calls, i \in AttemptIds :
        (att[c][i].pc = "send") ~> ~HoldsInstance(att[c][i])

\* C2: a caller that runs SetTimeout(retry, giveup) and then GetTimeout ends
\* with (retry, giveup) as GetTimeout's result.
C2_GetReturnsWhatWasSet ==
    (cfgPc = "SetTimeout") ~> (cfgPc = "idle" /\ got = setArg)

\* C3: every call of SetTimeout eventually returns, mux having accepted the
\* pair from muxChan.
C3_SetTimeoutReturns == (cfgPc = "SetTimeout") ~> (cfgPc # "SetTimeout")

\* C4: after every notification mux has processed, in whatever batch, the
\* keys of the instance map are exactly the addresses the notifications
\* processed so far leave registered.
C4_KeysAreRegistered == DOMAIN instances = registered

\* An address was added and removed again while an attempt of a concurrent
\* call holds its entry.
C4_Witness ==
    /\ registered = {}
    /\ nextEntry > 1
    /\ \E c \in Calls, i \in AttemptIds : HoldsInstance(att[c][i])

\* C5, as claimed: the entries of the instance map are exactly the entries
\* lying in the instance pool.
C5_KeysArePoolEntries == Range(instances) = poolIdle

\* C5, amended: the entries of the instance map are exactly the entries, not
\* closed, that lie idle in the instance pool or are leased from it by an
\* attempt; and no two addresses share an entry.
C5_KeysAreOpenEntries ==
    /\ Range(instances) = (poolIdle \cup Leased) \ closed
    /\ \A k1, k2 \in DOMAIN instances :
           instances[k1] = instances[k2] => k1 = k2

\* A known address whose entry an attempt has taken out of the pool.
C5_Witness ==
    \E k \in DOMAIN instances, c \in Calls, i \in AttemptIds :
        /\ HoldsInstance(att[c][i])
        /\ att[c][i].sp = instances[k]
        /\ instances[k] \notin poolIdle

\* C6: a call with giveup > 0 eventually returns, whatever its attempts do;
\* when it returns having received no attempt result (as with no instance
\* registered), it returns ErrRequestTimeout.
C6_DeadlineReturns ==
    \A c \in Calls :
        /\ (call[c].pc = "select" /\ call[c].giveup > 0) ~> (call[c].pc = "done")
        /\ [](call[c].pc = "done" /\ call[c].giveup > 0 /\ call[c].received = 0
                 => call[c].err = ErrRequestTimeout)

\* No instance was ever registered, the only attempt still waits for one,
\* and the call has returned ErrRequestTimeout.
C6_Witness ==
    \E c \in Calls :
        /\ nextEntry = 1
        /\ call[c].pc = "done"
        /\ call[c].giveup > 0
        /\ att[c][1].pc = "acquireInstance"
        /\ call[c].err = ErrRequestTimeout

\* C7: with giveup = 0, the first attempt result received that is a
\* transport error ends the call with exactly that error, for every retry;
\* and a call with such a result on offer does return.
C7_TransportErrorAborts ==
    \A c \in Calls :
        /\ [](call[c].giveup = 0 /\ call[c].received > 0
                  /\ IsTransportError(call[c].last.err)
                 => /\ call[c].pc = "done"
                    /\ call[c].received = 1
                    /\ call[c].err = call[c].last.err)
        /\ \A i \in AttemptIds :
               (/\ call[c].pc = "select"
                /\ call[c].giveup = 0
                /\ att[c][i].pc = "send"
                /\ IsTransportError(att[c][i].err)) ~> (call[c].pc = "done")

\* A call with a retry interval and no deadline returned the wire error of
\* the one instance.
C7_Witness ==
    \E c \in Calls :
        /\ call[c].pc = "done"
        /\ call[c].giveup = 0
        /\ call[c].retry > 0
        /\ call[c].err.kind = "transport"
        /\ nextEntry = 2

\* C8: a call with giveup > 0 that received transport errors only returns
\* by its deadline and not before, with the last transport error it
\* received, or with ErrRequestTimeout when it received none.
C8_LastTransportErrorAtDeadline ==
    \A c \in Calls :
        (/\ call[c].giveup > 0
         /\ call[c].pc = "done"
         /\ (call[c].received = 0 \/ IsTransportError(call[c].last.err)))
        => /\ call[c].exit = "timeout"
           /\ call[c].err = IF call[c].received = 0 THEN ErrRequestTimeout
                            ELSE call[c].last.err

\* Two attempts failed on the wire before the deadline; the call returned
\* the error of the second.
C8_Witness ==
    \E c \in Calls :
        /\ call[c].pc = "done"
        /\ call[c].exit = "timeout"
        /\ call[c].received = 2
        /\ call[c].err = Err("transport", 2)

\* C9, as claimed: when a call has returned, every attempt of it that
\* completed with no error had its bytes given to the decoder.
C9_EverySuccessIsDecoded ==
    \A c \in Calls, i \in AttemptIds :
        (call[c].pc = "done" /\ att[c][i].pc = "send" /\ att[c][i].err = NilErr)
        => (call[c].decodedBy = i /\ call[c].decoded = att[c][i].result)

\* C9, amended: a result with no error that the call receives ends the call:
\* its bytes are given to the decoder and the call returns what the decoder
\* returns.
C9_ReceivedSuccessIsDecoded ==
    \A c \in Calls :
        (call[c].received > 0 /\ call[c].last.err = NilErr)
        => /\ call[c].pc = "done"
           /\ call[c].decoded = call[c].last.result
           /\ call[c].err = Unmarshal(call[c].last.result)

\* A call with retries and a deadline received a successful attempt whose
\* bytes do not decode, and returned the decoder's error.
C9_Witness ==
    \E c \in Calls :
        /\ call[c].pc = "done"
        /\ call[c].retry > 0
        /\ call[c].giveup > 0
        /\ call[c].last.err = NilErr
        /\ call[c].decoded = "bad"
        /\ call[c].err = DecodeErr

\* C10: a SendOnce call launches one attempt and no more, runs send with no
\* retry interval, and with the give-up duration mux holds.
C10_SendOnceSingleAttempt ==
    \A c \in Calls :
        call[c].kind = "SendOnce"
        => /\ call[c].launched <= 1
           /\ call[c].pc \in {"select", "done"}
                  => /\ call[c].retry = 0
                     /\ call[c].giveup = giveupTimeout

\* A SendOnce call waits in its loop, its one attempt waiting for an
\* instance.
C10_Witness ==
    \E c \in Calls :
        /\ call[c].kind = "SendOnce"
        /\ call[c].pc = "select"
        /\ call[c].launched = 1
        /\ att[c][1].pc = "acquireInstance"

\* A notification that announces its address as registered ...
IsAdd(n) == n.type # "InstanceRemoveNotification" /\ n.registered

\* ... and one that announces it as gone.
IsRemove(n) == ~IsAdd(n)

\* C11: in every reachable state, an Add, or an Update with registered = true,
\* for an address that is a key of the instance map changes nothing: the
\* map, the entries created, the closed flags and the instance pool are as
\* before; and the pool never holds more open entries than there are keys.
C11_ReAddIsNoOp ==
    /\ \A n \in Notifications :
           (IsAdd(n) /\ n.addr \in DOMAIN instances)
           => muxNotification(Registry, n) = Registry
    /\ Cardinality(poolIdle \ closed) <= Cardinality(DOMAIN instances)

\* A known address whose entry lies in the pool, announced again.
C11_Witness ==
    \E k \in DOMAIN instances :
        /\ instances[k] \in poolIdle
        /\ muxNotification(Registry,
               [type |-> "InstanceUpdateNotification", addr |-> k,
                registered |-> TRUE]).poolIdle = poolIdle

\* C12: in every reachable state, a Remove, or an Update with
\* registered = false, for an address that is not a key of the instance map
\* changes nothing: no entry is closed, the map and the pool are as before.
C12_RemoveUnknownIsNoOp ==
    \A n \in Notifications :
        (IsRemove(n) /\ n.addr \notin DOMAIN instances)
        => muxNotification(Registry, n) = Registry

\* One address is known, its entry open, and another address, unknown, is
\* announced as removed.
C12_Witness ==
    \E k \in DOMAIN instances, u \in Addrs \ DOMAIN instances :
        /\ instances[k] \notin closed
        /\ muxNotification(Registry,
               [type |-> "InstanceRemoveNotification", addr |-> u,
                registered |-> TRUE]).closed = closed

C14_TransportErrorClosesConn ==
    \A c \in Calls, i \in AttemptIds :
        (/\ att[c][i].pc = "send"
         /\ IsTransportError(att[c][i].err)
         /\ att[c][i].r # "nil")
        => att[c][i].r = "closed"

\* C15: an attempt that cannot acquire an instance, or a connection of the
\* instance it acquired, reports the acquisition error as its one result
\* and does not crash: no attempt ever ends in a panic.
C15_AcquisitionErrorReported ==
    \A c \in Calls, i \in AttemptIds : att[c][i].pc # "panic"

\* C16: a result carrying a remote application error that the call receives
\* ends the call there, for every giveup and retry: the call returns through
\* the decode step and not by its deadline, that result's bytes are given
\* to the decoder, and the call returns what the decoder returns (nil when
\* the bytes decode), never the remote application error.
C16_RemoteErrorIsDecoded ==
    \A c \in Calls :
        (call[c].received > 0 /\ IsServiceError(call[c].last.err))
        => /\ call[c].pc = "done"
           /\ call[c].exit = "decode"
           /\ call[c].decoded = call[c].last.result
           /\ call[c].err = Unmarshal(call[c].last.result)
           /\ ~IsServiceError(call[c].err)

\* A call with a deadline received a remote application error with bytes
\* that decode, after a transport error of an earlier attempt, and returned
\* nil.
C16_Witness ==
    \E c \in Calls :
        /\ call[c].pc = "done"
        /\ call[c].giveup > 0
        /\ call[c].received = 2
        /\ IsServiceError(call[c].last.err)
        /\ call[c].decoded = "good"
        /\ call[c].err = NilErr

\* C17: acquisition is nested.  In every reachable state an attempt that
\* holds a connection holds an instance entry, which is out of the instance
\* pool; an attempt takes a connection only while it holds an entry, and
\* gives its entry back only after it gave the connection back.
C17_NestedAcquisition ==
    /\ [](\A c \in Calls, i \in AttemptIds :
             att[c][i].r # "nil"
             => /\ HoldsConn(att[c][i])
                /\ HoldsInstance(att[c][i])
                /\ att[c][i].sp \in Entries \ poolIdle)
    /\ [][\A c \in Calls, i \in AttemptIds :
             /\ (att[c][i].r = "nil" /\ att'[c][i].r # "nil")
                => (HoldsInstance(att[c][i]) /\ att'[c][i].sp = att[c][i].sp)
             /\ (att[c][i].sp # 0 /\ att'[c][i].sp = 0)
                => att[c][i].r = "nil"]_vars

\* An attempt whose call has returned is about to release its connection,
\* still holding its entry.
C17_Witness ==
    \E c \in Calls, i \in AttemptIds :
        /\ att[c][i].pc = "releaseConn"
        /\ HoldsConn(att[c][i])
        /\ att[c][i].sp \in Entries
        /\ call[c].pc = "done"

\* The attempts of caller c that were started.
Started(c) == {i \in AttemptIds : att[c][i].pc # "none"}

\* C18: a call in send has started one attempt when it entered and one more
\* with every tick it consumed.  In every reachable state the attempts
\* started are as many as the launches counted, at least one, and exactly
\* one when retry = 0; and every step of a call that stays in its loop and
\* launches is a tick of a call with retry > 0, starts exactly one attempt
\* and leaves every attempt started before as it was.
C18_OneAttemptPerTick ==
    /\ [](\A c \in Calls :
             call[c].pc \in {"select", "done"}
             => /\ Cardinality(Started(c)) = call[c].launched
                /\ call[c].launched >= 1
                /\ call[c].retry = 0 => call[c].launched = 1)
    /\ [][\A c \in Calls :
             (/\ call[c].pc = "select"
              /\ call'[c].launched # call[c].launched)
             => /\ call[c].retry > 0
                /\ call'[c].pc = "select"
                /\ call'[c].launched = call[c].launched + 1
                /\ \A i \in Started(c) : att'[c][i] = att[c][i]
                /\ \E j \in AttemptIds \ Started(c) :
                       /\ att'[c][j].pc = "acquireInstance"
                       /\ \A k \in AttemptIds \ (Started(c) \cup {j}) :
                              att'[c][k].pc = "none"]_vars

\* A call with a retry interval consumed a tick while its first attempt was
\* in its remote call; both attempts are in flight.
C18_Witness ==
    \E c \in Calls :
        /\ call[c].pc = "select"
        /\ call[c].retry > 0
        /\ call[c].launched = 2
        /\ att[c][1].pc = "rpc"
        /\ att[c][2].pc = "acquireInstance"

\* C19: an instance entry is leased to one attempt at a time.  In every
\* reachable state no two attempts hold the same entry, and an entry an
\* attempt holds is not in the instance pool; so no two attempts hold
\* connections of the same entry's pool.
C19_ExclusiveLease ==
    /\ \A c, d \in Calls, i, j \in AttemptIds :
           (/\ <<c, i>> # <<d, j>>
            /\ HoldsInstance(att[c][i])
            /\ HoldsInstance(att[d][j]))
           => att[c][i].sp # att[d][j].sp
    /\ Leased \cap poolIdle = {}

\* One attempt is in its remote call on the entry of a known address; a
\* second attempt waits for an instance, the pool holding none to give.
C19_Witness ==
    \E c, d \in Calls, i, j \in AttemptIds :
        /\ att[c][i].pc = "rpc"
        /\ att[c][i].sp \in Range(instances)
        /\ att[d][j].pc = "acquireInstance"
        /\ PoolAcquirable(poolIdle, closed) = {}

\* C20: an attempt calls Release on its entry's connection pool only with a
\* connection it acquired from that pool: whenever its deferred
\* sp.pool.Release(r) is about to run, r is a connection and not nil.
C20_ReleasesOnlyAcquiredConn ==
    \A c \in Calls, i \in AttemptIds :
        att[c][i].pc = "releaseConn" => att[c][i].r # "nil"

====
